---- MODULE Spec2Model ----
\* The two scripts of the repository, download_model.py (the fetch pipeline)
\* and model_conversion.py (the build-and-export pipeline), as one state
\* machine over the output directory both of them write to, and the final
\* L2-normalisation layer of the embedding model as a pure function.
EXTENDS Integers, Sequences, FiniteSets, TLC

\* ------------------------------------------------------------------ bounds

\* How many times the two entry points are invoked in one behaviour.
MaxRuns == 2
\* How many times the export step is repeated on one model and directory.
MaxExports == 2
\* The embedding axis (EMBEDDING_SIZE in the code) and the batch axis.
EmbDim == 2
MaxBatch == 2

\* ------------------------------------------------------- program constants

\* os.path.getsize(...) / 1024 and total_size / 1024
KB == 1024
\* if total_size / 1024 <= 8.0
FetchBudgetMB == 8
\* if size_mb <= 2.0
BuildBudgetMB == 2
\* bytes of the README template around the formatted size
ReadmeTemplateLen == 739

MB == KB * KB

\* MODELS: an insertion-ordered dict, model name -> list of file names.
MODELS ==
  << [name  |-> "tiny_face_detector",
      files |-> << "tiny_face_detector_model-weights_manifest.json",
                   "tiny_face_detector_model-shard1" >>],
     [name  |-> "face_landmark_68_tiny",
      files |-> << "face_landmark_68_tiny_model-weights_manifest.json",
                   "face_landmark_68_tiny_model-shard1" >>],
     [name  |-> "face_recognition",
      files |-> << "face_recognition_model-weights_manifest.json",
                   "face_recognition_model-shard1",
                   "face_recognition_model-shard2" >>] >>

\* The file names of MODELS in iteration order of the two nested loops.
RECURSIVE Flatten(_)
Flatten(ms) ==
  IF ms = << >> THEN << >> ELSE Head(ms).files \o Flatten(Tail(ms))

Manifest == Flatten(MODELS)

NFiles == Len(Manifest)

ManifestFiles == { Manifest[i] : i \in 1..NFiles }

\* What tfjs.converters.save_keras_model writes, and create_readme's file.
ModelJson == "model.json"
WeightShard == "group1-shard1of1.bin"
Readme == "README.md"

ExportFiles == { ModelJson, WeightShard }

AllFiles == ManifestFiles \cup ExportFiles \cup { Readme }

\* ------------------------------------------------------------ arithmetic

RECURSIVE SumSeq(_)
SumSeq(s) == IF s = << >> THEN 0 ELSE Head(s) + SumSeq(Tail(s))

RECURSIVE Digits(_)
Digits(n) == IF n < 10 THEN 1 ELSE 1 + Digits(n \div 10)

\* f"{bytes / (1024 * 1024):.2f}": the value in hundredths of a MB. The
\* quotient is exact in binary floating point, and the decimal conversion
\* rounds the exact value, ties to even.
Format2f(bytes) ==
  LET n == bytes * 100
      q == n \div MB
      r == n % MB
  IN  IF 2 * r > MB THEN q + 1
      ELSE IF 2 * r = MB THEN q + (q % 2)
      ELSE q

\* The number of characters of that text: integer digits, ".", two decimals.
Format2fLen(bytes) == Digits(Format2f(bytes) \div 100) + 3

\* ------------------------------------------------------ the environment

\* The byte sizes the remote repository serves for the manifest files. The
\* sizes are around a seventh of the 8 MB budget, so that the total of a run
\* falls under, on and over the budget.
NearShare == (FetchBudgetMB * MB) \div NFiles

\* Two servers: one whose files add up to the budget exactly, and one that
\* serves an empty body for one file and goes over the budget with the rest.
RemoteScenarios ==
  { [i \in 1..NFiles |-> IF i <= FetchBudgetMB * MB - NFiles * NearShare
                         THEN NearShare + 1 ELSE NearShare],
    [i \in 1..NFiles |-> IF i = 2 THEN 0
                         ELSE (FetchBudgetMB * MB) \div (NFiles - 1) + 1] }

Index(f) == CHOOSE i \in 1..NFiles : Manifest[i] = f

\* ---------------------------------------------------------------- state

VARIABLES
  remote,       \* environment: manifest index -> bytes the server serves
  dir,          \* OUTPUT_DIR "face_recognition_model": file name -> bytes
  dirExists,    \* whether OUTPUT_DIR exists
  pc,           \* position of the running entry point, or "idle"
  runs,         \* invocations of the two entry points so far
  \* download_model.main
  mi,           \* index of the model group of the outer loop
  fi,           \* index of the file of the inner loop
  total_size,   \* 1024 * total_size (KB), an exact count of bytes
  attempted,    \* file names download_file was called with, in order
  reported,     \* per call of download_file: whether it failed, its return
  out,          \* what the run printed and how it exited
  \* model_conversion.main
  model,        \* the model create_model returned (0: none)
  size,         \* size_mb returned by convert_to_tfjs, in bytes (-1: none)
  calls,        \* calls of create_model and save_keras_model in this run
  \* the export step repeated
  measured,     \* the size_mb each repetition returned (in bytes)
  \* the model's final layer
  batch,        \* the rows the last Dense layer hands to the Lambda layer
  emb           \* the rows the Lambda layer returns

vars == << remote, dir, dirExists, pc, runs, mi, fi, total_size, attempted,
           reported, out, model, size, calls, measured, batch, emb >>

fetchLocals == << mi, fi, total_size, attempted, reported >>
buildLocals == << model, size, calls >>
aside == << measured, batch, emb >>

\* Nothing printed yet, nothing written yet, the process still running.
NoOut == [banner |-> FALSE, total |-> -1, doneLine |-> FALSE,
          readme |-> FALSE, listing |-> {}, fault |-> FALSE, status |-> -1]

NoCalls == [create |-> 0, export |-> 0]

\* No entry point is running: none was started yet, or the last one ended.
Ended == pc \in { "idle", "f_done", "f_aborted", "b_done", "b_aborted" }

Put(d, f, sz) == [x \in (DOMAIN d) \cup {f} |-> IF x = f THEN sz ELSE d[x]]

Init ==
  /\ remote \in RemoteScenarios
  /\ dir = << >>
  /\ dirExists = FALSE
  /\ pc = "idle"
  /\ runs = 0
  /\ mi = 1
  /\ fi = 1
  /\ total_size = 0
  /\ attempted = << >>
  /\ reported = << >>
  /\ out = NoOut
  /\ model = 0
  /\ size = -1
  /\ calls = NoCalls
  /\ measured = << >>
  /\ batch = << >>
  /\ emb = << >>

\* ------------------------------------------------- download_model.py

\* download_file without its try/except: a fault leaves the function.
download_file_uncaught(f, d) ==
  { [fault |-> FALSE, raised |-> FALSE, ret |-> remote[Index(f)],
     dir |-> Put(d, f, remote[Index(f)])] }
  \cup
  { [fault |-> TRUE, raised |-> TRUE, ret |-> 0, dir |-> d],
    [fault |-> TRUE, raised |-> TRUE, ret |-> 0, dir |-> Put(d, f, 0)] }

\* download_file(url, output_path): the outcomes of one call. urlretrieve
\* either writes the whole body, or raises before it opened the file, or
\* raises after it opened (and so truncated) the file; except Exception
\* turns both faults into the return value 0.
download_file(f, d) ==
  { [fault |-> FALSE, raised |-> FALSE, ret |-> remote[Index(f)],
     dir |-> Put(d, f, remote[Index(f)])] }
  \cup
  { [fault |-> TRUE, raised |-> FALSE, ret |-> 0, dir |-> d],
    [fault |-> TRUE, raised |-> FALSE, ret |-> 0, dir |-> Put(d, f, 0)] }

\* total_size = size, the "+" of "+=" lost.
Accumulate_assign(total, sz) == sz

\* total_size += size
Accumulate(total, sz) == total + sz

\* "<" for "<=" in the fetch verdict.
FetchUnderBudget_strict(total) == total < FetchBudgetMB * MB

\* if total_size / 1024 <= 8.0
FetchUnderBudget(total) == total <= FetchBudgetMB * MB

\* main, lines 47-54: the banner, os.makedirs(OUTPUT_DIR, exist_ok=True),
\* total_size = 0.
FetchBegin ==
  /\ Ended
  /\ runs < MaxRuns
  /\ runs' = runs + 1
  /\ dirExists' = TRUE
  /\ mi' = 1
  /\ fi' = 1
  /\ total_size' = 0
  /\ attempted' = << >>
  /\ reported' = << >>
  /\ out' = NoOut
  /\ model' = 0
  /\ size' = -1
  /\ calls' = NoCalls
  /\ pc' = "f_loop"
  /\ UNCHANGED << remote, dir, aside >>

\* One iteration of the inner loop, lines 58-62, and the step of the outer
\* loop when the group's list is exhausted. An exception leaving
\* download_file is not handled by main and ends the process.
FetchIter ==
  /\ pc = "f_loop"
  /\ mi <= Len(MODELS)
  /\ LET filename == MODELS[mi].files[fi]
     IN  \E o \in download_file(filename, dir) :
           /\ attempted' = Append(attempted, filename)
           /\ dir' = o.dir
           /\ IF o.raised
              THEN /\ pc' = "f_aborted"
                   /\ out' = [out EXCEPT !.fault = TRUE, !.status = 1]
                   /\ UNCHANGED << mi, fi, total_size, reported >>
              ELSE /\ reported' =
                        Append(reported, [fault |-> o.fault, size |-> o.ret])
                   /\ total_size' = Accumulate(total_size, o.ret)
                   /\ IF fi < Len(MODELS[mi].files)
                      THEN fi' = fi + 1 /\ mi' = mi
                      ELSE fi' = 1 /\ mi' = mi + 1
                   /\ out' = [out EXCEPT !.fault = (@ \/ o.fault)]
                   /\ UNCHANGED pc
  /\ UNCHANGED << remote, dirExists, runs, buildLocals, aside >>

\* main, lines 64-72: the total line, the verdict, the "Downloaded to" line,
\* and the normal end of the process.
FetchEnd ==
  /\ pc = "f_loop"
  /\ mi > Len(MODELS)
  /\ out' = [out EXCEPT !.total = Format2f(total_size),
                        !.banner = FetchUnderBudget(total_size),
                        !.doneLine = TRUE,
                        !.status = 0]
  /\ pc' = "f_done"
  /\ UNCHANGED << remote, dir, dirExists, runs, fetchLocals, buildLocals,
                  aside >>

\* ------------------------------------------------ model_conversion.py

\* The models create_model can return: the two Dense layers are initialised
\* at random, so the text of model.json (the quantisation ranges) differs
\* from one construction to the next. Their export sizes are taken just
\* under, on and just over the 2 MB budget.
Models == 1..3

NearJson == 100 * KB

ExportBytes(m) ==
  [f \in ExportFiles |->
     IF f = ModelJson THEN NearJson + m
     ELSE BuildBudgetMB * MB - NearJson - 2]

\* create_model(): a model, or a fault (the pretrained weights cannot be
\* loaded), which nothing catches.
create_model ==
  { [fault |-> FALSE, raised |-> FALSE, model |-> m] : m \in Models }
  \cup { [fault |-> TRUE, raised |-> TRUE, model |-> 0] }

\* An export whose faults are swallowed: the caller goes on as if it had
\* succeeded.
save_keras_model_swallowed(m, d) ==
  { [fault |-> FALSE, raised |-> FALSE,
     dir |-> Put(Put(d, WeightShard, ExportBytes(m)[WeightShard]),
                 ModelJson, ExportBytes(m)[ModelJson])] }
  \cup
  { [fault |-> TRUE, raised |-> FALSE, dir |-> d],
    [fault |-> TRUE, raised |-> FALSE,
     dir |-> Put(d, WeightShard, ExportBytes(m)[WeightShard])] }

\* An export that appends to the weight shard it finds instead of writing
\* over it.
save_keras_model_append(m, d) ==
  { [fault |-> FALSE, raised |-> FALSE,
     dir |-> Put(Put(d, WeightShard,
                     (IF WeightShard \in DOMAIN d THEN d[WeightShard] ELSE 0)
                     + ExportBytes(m)[WeightShard]),
                 ModelJson, ExportBytes(m)[ModelJson])] }
  \cup
  { [fault |-> TRUE, raised |-> TRUE, dir |-> d] }

\* tfjs.converters.save_keras_model(model, output_dir, ...): the weight shard
\* and then model.json are written over what is there; a fault leaves the
\* directory as it was or with the shard alone written, and is not caught.
save_keras_model(m, d) ==
  { [fault |-> FALSE, raised |-> FALSE,
     dir |-> Put(Put(d, WeightShard, ExportBytes(m)[WeightShard]),
                 ModelJson, ExportBytes(m)[ModelJson])] }
  \cup
  { [fault |-> TRUE, raised |-> TRUE, dir |-> d],
    [fault |-> TRUE, raised |-> TRUE,
     dir |-> Put(d, WeightShard, ExportBytes(m)[WeightShard])] }

\* sum(os.path.getsize(join(output_dir, f)) for f in os.listdir(output_dir)
\*     if os.path.isfile(join(output_dir, f)))
RECURSIVE SumSizes(_, _)
SumSizes(d, fs) ==
  IF fs = {} THEN 0
  ELSE LET f == CHOOSE x \in fs : TRUE
       IN  d[f] + SumSizes(d, fs \ {f})

MeasureDir(d) == SumSizes(d, DOMAIN d)

\* "<" for "<=" in the build verdict.
BuildUnderBudget_strict(bytes) == bytes < BuildBudgetMB * MB

\* if size_mb <= 2.0
BuildUnderBudget(bytes) == bytes <= BuildBudgetMB * MB

\* The size of the README create_readme writes: the template and the size
\* formatted with two decimals.
ReadmeBytes(bytes) == ReadmeTemplateLen + Format2fLen(bytes)

\* convert_to_tfjs(model, output_dir), lines 52-79: the export, then the
\* measurement of everything in the directory, the verdict and the return
\* value. A fault of the export leaves the function before it measures.
convert_to_tfjs(m, d) ==
  { IF o.raised
    THEN [fault |-> o.fault, raised |-> TRUE, dir |-> o.dir, size_mb |-> -1,
          banner |-> FALSE]
    ELSE [fault |-> o.fault, raised |-> FALSE, dir |-> o.dir,
          size_mb |-> MeasureDir(o.dir),
          banner |-> BuildUnderBudget(MeasureDir(o.dir))]
    : o \in save_keras_model(m, d) }

\* The module's banner and main, line 121.
BuildBegin ==
  /\ Ended
  /\ runs < MaxRuns
  /\ runs' = runs + 1
  /\ model' = 0
  /\ size' = -1
  /\ calls' = NoCalls
  /\ out' = NoOut
  /\ mi' = 1
  /\ fi' = 1
  /\ total_size' = 0
  /\ attempted' = << >>
  /\ reported' = << >>
  /\ pc' = "b_create"
  /\ UNCHANGED << remote, dir, dirExists, aside >>

\* main, line 122: model = create_model().
CreateModel ==
  /\ pc = "b_create"
  /\ calls' = [calls EXCEPT !.create = @ + 1]
  /\ \E o \in create_model :
       IF o.raised
       THEN /\ pc' = "b_aborted"
            /\ out' = [out EXCEPT !.fault = TRUE, !.status = 1]
            /\ UNCHANGED model
       ELSE /\ pc' = "b_convert"
            /\ model' = o.model
            /\ out' = [out EXCEPT !.fault = (@ \/ o.fault)]
  /\ UNCHANGED << remote, dir, dirExists, runs, fetchLocals, size, aside >>

\* main, line 125: size = convert_to_tfjs(model, OUTPUT_DIR), with the
\* os.makedirs(output_dir, exist_ok=True) of its line 56.
ConvertToTfjs ==
  /\ pc = "b_convert"
  /\ dirExists' = TRUE
  /\ calls' = [calls EXCEPT !.export = @ + 1]
  /\ \E o \in convert_to_tfjs(model, dir) :
       /\ dir' = o.dir
       /\ IF o.raised
          THEN /\ pc' = "b_aborted"
               /\ out' = [out EXCEPT !.fault = TRUE, !.status = 1]
               /\ UNCHANGED size
          ELSE /\ size' = o.size_mb
               /\ out' = [out EXCEPT !.total = Format2f(o.size_mb),
                                     !.banner = o.banner,
                                     !.fault = (@ \/ o.fault)]
               /\ pc' = "b_readme"
  /\ UNCHANGED << remote, runs, fetchLocals, model, aside >>

\* main, line 128: create_readme(OUTPUT_DIR, size), lines 81-118.
CreateReadme ==
  /\ pc = "b_readme"
  /\ dir' = Put(dir, Readme, ReadmeBytes(size))
  /\ out' = [out EXCEPT !.readme = TRUE]
  /\ pc' = "b_list"
  /\ UNCHANGED << remote, dirExists, runs, fetchLocals, buildLocals,
                  aside >>

\* main, lines 130-134: the DONE line, the listing of the directory, and the
\* normal end of the process.
BuildEnd ==
  /\ pc = "b_list"
  /\ out' = [out EXCEPT !.doneLine = TRUE, !.listing = DOMAIN dir,
                        !.status = 0]
  /\ pc' = "b_done"
  /\ UNCHANGED << remote, dir, dirExists, runs, fetchLocals, buildLocals,
                  aside >>

\* ------------------------------------- the export step on its own

\* The directories the export step is started on: any of an earlier export's
\* files, an earlier README and a downloaded file may be there.
StartFiles == { ModelJson, WeightShard, Readme, Manifest[1] }

StartSizes == { 0, NearJson + 2 }

StartDirs == UNION { [fs -> StartSizes] : fs \in SUBSET StartFiles }

\* convert_to_tfjs(model, OUTPUT_DIR) called again on the same model and on
\* the directory the call before it left.
ExportStep ==
  /\ pc = "x_export"
  /\ Len(measured) < MaxExports
  /\ dirExists' = TRUE
  /\ calls' = [calls EXCEPT !.export = @ + 1]
  /\ \E o \in convert_to_tfjs(model, dir) :
       /\ dir' = o.dir
       /\ IF o.raised
          THEN /\ pc' = "x_aborted"
               /\ UNCHANGED measured
          ELSE /\ measured' = Append(measured, o.size_mb)
               /\ UNCHANGED pc
  /\ UNCHANGED << remote, runs, fetchLocals, out, model, size, batch, emb >>

\* ---------------------------------------------- the model's final layer

\* create_model, lines 45-46: Dense(EMBEDDING_SIZE, activation=None) and then
\* Lambda(lambda x: tf.nn.l2_normalize(x, axis=1)). The values the Dense
\* layer hands over are whole multiples of 1e-6.
Values == -1..2

Rows == [1..EmbDim -> Values]

Batches == UNION { [1..n -> Rows] : n \in 1..MaxBatch }

\* tf.nn.l2_normalize's epsilon, 1e-12, in the unit of the squares.
Epsilon == 1

Max(a, b) == IF a >= b THEN a ELSE b

RECURSIVE SumOver(_, _)
SumOver(f, ix) ==
  IF ix = {} THEN 0
  ELSE LET i == CHOOSE x \in ix : TRUE
       IN  f[i] + SumOver(f, ix \ {i})

RECURSIVE ProdOver(_, _)
ProdOver(f, ix) ==
  IF ix = {} THEN 1
  ELSE LET i == CHOOSE x \in ix : TRUE
       IN  f[i] * ProdOver(f, ix \ {i})

\* sum(x ** 2) along one row.
RowSumSq(x, r) == SumOver([c \in 1..EmbDim |-> x[r][c] * x[r][c]], 1..EmbDim)

\* sum(x ** 2) along one column.
ColSumSq(x, c) == SumOver([r \in 1..Len(x) |-> x[r][c] * x[r][c]], 1..Len(x))

\* l2_normalize along the batch axis: axis=0 for axis=1.
l2_normalize_axis0(x) ==
  [r \in 1..Len(x) |->
     [c \in 1..EmbDim |->
        [num |-> x[r][c], den2 |-> Max(ColSumSq(x, c), Epsilon)]]]

\* tf.nn.l2_normalize(x, axis=1) = x / sqrt(max(sum(x ** 2, axis=1), epsilon)).
\* An entry [num, den2] stands for num / sqrt(den2).
l2_normalize(x) ==
  [r \in 1..Len(x) |->
     [c \in 1..EmbDim |->
        [num |-> x[r][c], den2 |-> Max(RowSumSq(x, r), Epsilon)]]]

\* Whether the squared L2 norm of a row of entries num / sqrt(den2), the sum
\* of num^2 / den2, is 1: both sides multiplied by the product of the den2.
UnitNorm(row) ==
  SumOver([c \in 1..EmbDim |->
             row[c].num * row[c].num
             * ProdOver([k \in 1..EmbDim |-> row[k].den2], (1..EmbDim) \ {c})],
          1..EmbDim)
  = ProdOver([k \in 1..EmbDim |-> row[k].den2], 1..EmbDim)

\* model(batch): the last layer applied to what the Dense layer computed.
Normalize ==
  /\ pc = "n_input"
  /\ emb' = l2_normalize(batch)
  /\ pc' = "n_done"
  /\ UNCHANGED << remote, dir, dirExists, runs, fetchLocals, out, buildLocals,
                  measured, batch >>

\* ------------------------------------------------------ specification

FetchNext == FetchBegin \/ FetchIter \/ FetchEnd

BuildNext == BuildBegin \/ CreateModel \/ ConvertToTfjs \/ CreateReadme
             \/ BuildEnd

Next == FetchNext \/ BuildNext

\* The two entry points, invoked one after the other in any order.
Spec == Init /\ [][Next]_vars

\* The fetch pipeline alone. A process that can take a step takes it: the
\* interpreter runs the next statement, and a fetch returns or raises. When
\* the entry point is started is up to the user.
FetchSpec ==
  /\ Init
  /\ [][FetchNext]_vars
  /\ WF_vars(FetchIter)
  /\ WF_vars(FetchEnd)

ExportInit ==
  /\ remote \in RemoteScenarios
  /\ dir \in StartDirs
  /\ dirExists = (DOMAIN dir # {})
  /\ pc = "x_export"
  /\ runs = 0
  /\ mi = 1
  /\ fi = 1
  /\ total_size = 0
  /\ attempted = << >>
  /\ reported = << >>
  /\ out = NoOut
  /\ model \in Models
  /\ size = -1
  /\ calls = NoCalls
  /\ measured = << >>
  /\ batch = << >>
  /\ emb = << >>

\* The export step repeated on one model and one directory.
ExportSpec == ExportInit /\ [][ExportStep]_vars

EmbedInit ==
  /\ remote \in RemoteScenarios
  /\ dir = << >>
  /\ dirExists = FALSE
  /\ pc = "n_input"
  /\ runs = 0
  /\ mi = 1
  /\ fi = 1
  /\ total_size = 0
  /\ attempted = << >>
  /\ reported = << >>
  /\ out = NoOut
  /\ model = 0
  /\ size = -1
  /\ calls = NoCalls
  /\ measured = << >>
  /\ batch \in Batches
  /\ emb = << >>

\* The final layer applied to a batch.
EmbedSpec == EmbedInit /\ [][Normalize]_vars

\* ------------------------------------------------------------- claims

InFetch == pc \in { "f_loop", "f_done", "f_aborted" }

InBuild == pc \in { "b_create", "b_convert", "b_readme", "b_list", "b_done",
                    "b_aborted" }

ReportedSizes == [i \in 1..Len(reported) |-> reported[i].size]

\* C1: a fault of download_file is caught, counts as 0 and does not stop the
\* loop: whatever failed before, the files attempted so far are the first
\* files of the manifest, each once and in order, every attempt has returned,
\* a failed one with 0, and at the end all 7 files were attempted.
C1_BestEffort ==
  InFetch =>
    /\ pc # "f_aborted"
    /\ Len(attempted) <= NFiles
    /\ attempted = SubSeq(Manifest, 1, Len(attempted))
    /\ Len(reported) = Len(attempted)
    /\ \A i \in 1..Len(reported) : reported[i].fault => reported[i].size = 0
    /\ pc = "f_done" => (attempted = Manifest /\ NFiles = 7)

C1_Witness ==
  /\ pc = "f_done"
  /\ reported[1].fault /\ reported[2].fault
  /\ ~reported[3].fault /\ reported[3].size > 0
  /\ reported[6].fault
  /\ ~reported[7].fault

\* C2: at every point of the loop the running total is the sum of the sizes
\* download_file returned so far (0 for a failed file), and the total printed
\* at the end is that sum, formatted.
C2_TotalIsSum ==
  (pc \in { "f_loop", "f_done" }) =>
    /\ total_size = SumSeq(ReportedSizes)
    /\ pc = "f_done" => out.total = Format2f(SumSeq(ReportedSizes))

C2_Witness ==
  /\ pc = "f_done"
  /\ reported[1].size > 0 /\ reported[3].size > 0
  /\ reported[4].fault
  /\ total_size > reported[7].size
  /\ reported[7].size > 0

\* C3: the success message is printed exactly when the total is at most
\* 8192 KB, the boundary included.
C3_Verdict ==
  pc = "f_done" => (out.banner <=> total_size <= 8192 * KB)

C3_Witness ==
  /\ pc = "f_done"
  /\ total_size = 8192 * KB
  /\ out.banner

\* C4: after a run in which no fetch failed, every file of the manifest is in
\* the output directory and is not empty.
C4_AllPresentNonEmpty ==
  (pc = "f_done" /\ ~out.fault) =>
    \A f \in ManifestFiles : f \in DOMAIN dir /\ dir[f] > 0

\* C5: whatever files fail, the fetch pipeline is never left by a fault; it
\* reaches its normal end, where the total line and the "Downloaded to" line
\* are printed and the exit status is 0.
C5_Terminates ==
  /\ [](pc # "f_aborted"
        /\ (pc = "f_done" =>
              out.total # -1 /\ out.doneLine /\ out.status = 0))
  /\ ((pc = "f_loop") ~> (pc = "f_done"))

C5_Witness ==
  /\ pc = "f_done"
  /\ \A i \in 1..NFiles : reported[i].fault
  /\ out.status = 0

\* C6: when construction and export succeeded, the SUCCESS banner is printed
\* exactly when the measured size is at most 2 MB; either way the run is not
\* aborted, and at its end the README is written, the exported files are
\* there and the exit status is 0.
C6_Advisory ==
  /\ (InBuild /\ size # -1) =>
       /\ pc \in { "b_readme", "b_list", "b_done" }
       /\ out.banner <=> size <= 2 * MB
  /\ pc = "b_done" =>
       /\ size # -1
       /\ out.readme /\ Readme \in DOMAIN dir
       /\ \A f \in ExportFiles :
            f \in DOMAIN dir /\ f \in out.listing
            /\ dir[f] = ExportBytes(model)[f]
       /\ out.status = 0

C6_Witness ==
  /\ pc = "b_done"
  /\ size > 2 * MB
  /\ ~out.banner
  /\ out.readme

\* C7: a fault in create_model or in the export aborts the build pipeline
\* there: no size is measured, no verdict printed, no README written by the
\* run, the status is not 0, and neither step is called a second time.
C7_FailFast ==
  InBuild =>
    /\ calls.create <= 1 /\ calls.export <= 1
    /\ out.fault =>
         /\ pc = "b_aborted"
         /\ size = -1 /\ out.total = -1
         /\ ~out.banner /\ ~out.readme /\ ~out.doneLine
         /\ out.status = 1
    /\ pc = "b_aborted" => out.fault

C7_Witness ==
  /\ pc = "b_aborted"
  /\ calls.export = 1
  /\ WeightShard \in DOMAIN dir
  /\ ModelJson \notin DOMAIN dir

\* C8: the export step repeated on the same model, on the directory the step
\* before it left, computes the same total size every time.
C8_Idempotent ==
  \A i, j \in 1..Len(measured) : measured[i] = measured[j]

C8_Witness ==
  /\ Len(measured) >= 2
  /\ Readme \in DOMAIN dir
  /\ Manifest[1] \in DOMAIN dir
  /\ dir[Readme] > 0

\* C9: whatever ran before, an invocation reports the size and the verdict
\* it reports when it runs alone on a fresh directory: the build pipeline the
\* size of the files it exported, the fetch pipeline the sizes of the files
\* it fetched.
C9_Independent ==
  /\ (InBuild /\ size # -1) =>
       /\ size = MeasureDir(ExportBytes(model))
       /\ out.banner = BuildUnderBudget(MeasureDir(ExportBytes(model)))
  /\ pc = "f_done" =>
       /\ total_size =
            SumSeq([i \in 1..NFiles |->
                      IF reported[i].fault THEN 0 ELSE remote[i]])
       /\ out.banner = FetchUnderBudget(total_size)

====
